---- MODULE Spec2Model ----
(***************************************************************************)
(* Model of sirsi/sirsi.py: the Item value class and the Account wrapper   *)
(* that drives a mechanize browser through a SirsiDynix patron portal.     *)
(*                                                                         *)
(* Python strings are sequences of one-character strings, so that prefix   *)
(* stripping, searching and numeric parsing are computed character by      *)
(* character.                                                              *)
(***************************************************************************)
EXTENDS Integers, Sequences, FiniteSets, TLC

VARIABLES
    \* ---- value-level code (Item construction, page parsing)
    input,      \* the argument: a raw token, item rows, or element text
    output,     \* what the code made of it so far, or None before it ran
    \* ---- the browser session (class Account)
    response,   \* self._browser.response(): the current page, or None
    form,       \* self._browser.form: the selected form, or None
    session,    \* server side: is the patron's session alive?
    renewed,    \* server side: control names renewed so far
    pc,         \* position inside the running public call ("idle": none)
    op,         \* the public operation running, or last run
    args,       \* renew(items) of the running or last call: the raw
                \* tokens of the Items passed
    todo,       \* renew(items): renew_tokens still to be looked up
    error,      \* the exception that ended the call, or "none"
    result,     \* the value the call returned, or None
    hist        \* history of the running call (what it did so far)

pvars == <<input, output>>
svars == <<response, form, session, renewed, pc, op, args, todo, error,
           result, hist>>
vars == <<input, output, response, form, session, renewed, pc, op,
          args, todo, error, result, hist>>

None == "None"

(***************************************************************************)
(* String helpers (Python str methods used by the source)                  *)
(***************************************************************************)
StartsWith(s, p) == Len(s) >= Len(p) /\ SubSeq(s, 1, Len(p)) = p

Drop(s, n) == SubSeq(s, n + 1, Len(s))

\* p in s
Contains(s, p) ==
    \E i \in 1..(Len(s) - Len(p) + 1) : SubSeq(s, i, i + Len(p) - 1) = p

RECURSIVE Concat(_)
Concat(parts) ==
    IF parts = <<>> THEN <<>> ELSE Head(parts) \o Concat(Tail(parts))

\* all sequences over S of length 0..n
SeqUpTo(S, n) == UNION {[1..k -> S] : k \in 0..n}

(***************************************************************************)
(* class Item                                                              *)
(***************************************************************************)
RENEW_PREFIX == <<"R", "E", "N", "E", "W", "^">>

HOLD_PREFIX == <<"H", "L", "D", "^", "T", "I", "T", "L", "E", "^">>

\* A plausible slip: the pattern names the renewal prefix only.
TokenPrefixSubRenewOnly(token) ==
    IF StartsWith(token, RENEW_PREFIX)
    THEN Drop(token, Len(RENEW_PREFIX))
    ELSE token

\* A plausible slip: the substitution is dropped and the raw token is stored.
TokenPrefixKept(token) == token

\* TOKEN_PREFIX.sub('', token): the pattern ^(RENEW\^|HLD\^TITLE\^) is
\* anchored at the start, so at most one leading prefix is removed.
TokenPrefixSub(token) ==
    IF StartsWith(token, RENEW_PREFIX)
    THEN Drop(token, Len(RENEW_PREFIX))
    ELSE IF StartsWith(token, HOLD_PREFIX)
         THEN Drop(token, Len(HOLD_PREFIX))
         ELSE token

\* Item.__init__(token, name=None, due_date=None, times_renewed=None,
\*               ill=None, renewable=None)
NewItem(token, name, due_date, times_renewed) ==
    [token |-> TokenPrefixSub(token),
     name |-> name,
     due_date |-> due_date,
     times_renewed |-> times_renewed,
     ill |-> None,
     renewable |-> None]

\* Item.renew_token
renew_token(it) == RENEW_PREFIX \o it.token

\* Item.hold_token
hold_token(it) == HOLD_PREFIX \o it.token

(***************************************************************************)
(* Text conversions used by Account.items and Account.fines                *)
(***************************************************************************)
Digits == {"0", "1", "2", "3", "4", "5", "6", "7", "8", "9"}

DigitVal(c) ==
    CASE c = "0" -> 0 [] c = "1" -> 1 [] c = "2" -> 2 [] c = "3" -> 3
      [] c = "4" -> 4 [] c = "5" -> 5 [] c = "6" -> 6 [] c = "7" -> 7
      [] c = "8" -> 8 [] c = "9" -> 9

AllDigits(s) == \A i \in 1..Len(s) : s[i] \in Digits

RECURSIVE DigitsValue(_)
DigitsValue(s) ==
    IF s = <<>> THEN 0
    ELSE 10 * DigitsValue(SubSeq(s, 1, Len(s) - 1)) + DigitVal(s[Len(s)])

\* "nbsp" stands for the one character u'\xa0'
Whitespace == {" ", "\n", "\t", "nbsp"}

RECURSIVE LStrip(_, _)
LStrip(s, chars) ==
    IF s # <<>> /\ Head(s) \in chars THEN LStrip(Tail(s), chars) ELSE s

RECURSIVE RStrip(_, _)
RStrip(s, chars) ==
    IF s # <<>> /\ s[Len(s)] \in chars
    THEN RStrip(SubSeq(s, 1, Len(s) - 1), chars)
    ELSE s

\* str.strip(): whitespace off both ends; str.strip(chars): those chars
Strip(s, chars) == RStrip(LStrip(s, chars), chars)

\* str.replace(old, new): every occurrence, scanning left to right
RECURSIVE Replace(_, _, _)
Replace(s, old, new) ==
    IF s = <<>> THEN <<>>
    ELSE IF StartsWith(s, old)
         THEN new \o Replace(Drop(s, Len(old)), old, new)
         ELSE <<Head(s)>> \o Replace(Tail(s), old, new)

\* int(text) of an already stripped text: an optional sign and one or more
\* digits; anything else is a ValueError.
IntParse(s) ==
    LET signed == s # <<>> /\ Head(s) \in {"+", "-"}
        mag == IF signed THEN Tail(s) ELSE s
    IN  IF mag # <<>> /\ AllDigits(mag)
        THEN [ok |-> TRUE,
              val |-> IF signed /\ Head(s) = "-"
                      THEN 0 - DigitsValue(mag) ELSE DigitsValue(mag)]
        ELSE [ok |-> FALSE, val |-> 0]

\* A plausible slip: the ValueError of int() is not caught.
TimesRenewedUncaught(s) ==
    LET r == IntParse(s)
    IN  IF r.ok THEN [raised |-> "none", val |-> r.val]
        ELSE [raised |-> "ValueError", val |-> 0]

\* try: times_renewed = int(times_renewed)
\* except ValueError: times_renewed = 0
TimesRenewed(s) ==
    LET r == IntParse(s)
    IN  [raised |-> "none", val |-> IF r.ok THEN r.val ELSE 0]

\* Decimal(text): surrounding whitespace is dropped, then the text must be
\* [sign] digits [. digits] with at least one digit (the exponent, Inf and
\* NaN forms need letters that the modelled texts do not hold).  The value
\* is exact: a coefficient and a power of ten.
DecimalParse(s) ==
    LET t == Strip(s, Whitespace)
        signed == t # <<>> /\ Head(t) \in {"+", "-"}
        mag == IF signed THEN Tail(t) ELSE t
        dots == {i \in 1..Len(mag) : mag[i] = "."}
        dot == IF dots = {} THEN Len(mag) + 1
               ELSE CHOOSE i \in dots : \A j \in dots : i <= j
        int == SubSeq(mag, 1, dot - 1)
        frac == SubSeq(mag, dot + 1, Len(mag))
        good == /\ Cardinality(dots) <= 1
                /\ AllDigits(int) /\ AllDigits(frac)
                /\ Len(int) + Len(frac) > 0
    IN  IF good
        THEN [ok |-> TRUE, neg |-> signed /\ Head(t) = "-",
              coeff |-> DigitsValue(int \o frac), exp |-> 0 - Len(frac)]
        ELSE [ok |-> FALSE, neg |-> FALSE, coeff |-> 0, exp |-> 0]

YouOwe == <<"Y", "o", "u", " ", "o", "w", "e">>

\* The body of Account.fines after the page is fetched, given the text of
\* the first <li> nested in <li class="summary">.
ParseFines(litext) ==
    LET t == Replace(Strip(litext, Whitespace), YouOwe, <<>>)
        d == DecimalParse(Strip(t, {"$"}))
    IN  IF d.ok
        THEN [raised |-> "none", neg |-> d.neg, coeff |-> d.coeff,
              exp |-> d.exp]
        ELSE [raised |-> "InvalidOperation", neg |-> FALSE, coeff |-> 0,
              exp |-> 0]

(***************************************************************************)
(* Account.items: the rows of the "Renew My Materials" page                *)
(***************************************************************************)
ItemListing == <<"i", "t", "e", "m", "l", "i", "s", "t", "i", "n", "g">>

\* is_item(tag): a <tr> with a direct child whose class the pattern
\* 'itemlisting2?' is found in (bs4 matches a class pattern with search).
is_item(row) == row.tag = "tr" /\ Contains(row.cls, ItemListing)

\* dateutil.parser.parse(text), for the date texts the modelled pages hold:
\* <month digit>/<day digit> is a date, any other text is a ValueError.
DateParse(s) ==
    IF Len(s) = 3 /\ s[1] \in Digits /\ s[2] = "/" /\ s[3] \in Digits
    THEN [ok |-> TRUE, month |-> DigitVal(s[1]), day |-> DigitVal(s[3])]
    ELSE [ok |-> FALSE, month |-> 0, day |-> 0]

\* u'\xa0\xa0\n\t\t \n          \n          ', the run between title and author
LabelRun ==
    <<"nbsp", "nbsp", "\n", "\t", "\t", " ", "\n">>
    \o [i \in 1..10 |-> " "] \o <<"\n">> \o [i \in 1..10 |-> " "]

LabelDash == <<" ", "-", "-", " ">>

\* item.find('label').text.strip().replace(<run>, ' -- ')
ItemName(label) == Replace(Strip(label, Whitespace), LabelRun, LabelDash)

NoItem == [token |-> <<>>, name |-> None, due_date |-> DateParse(<<>>),
           times_renewed |-> 0, ill |-> None, renewable |-> None]

\* A loop body that falls back to a default date when the text does not
\* parse, where the source lets the ValueError escape.
RowItemDefaultDate(row) ==
    LET strongs == [i \in 1..Len(row.strongs) |->
                        Strip(row.strongs[i], Whitespace)]
    IN  IF Len(strongs) # 2
        THEN [raised |-> "ValueError", item |-> NoItem]
        ELSE LET due == DateParse(strongs[1])
                 n == TimesRenewed(strongs[2])
             IN  [raised |-> "none",
                  item |-> NewItem(row.input, ItemName(row.label),
                                   [ok |-> TRUE,
                                    month |-> IF due.ok THEN due.month ELSE 1,
                                    day |-> IF due.ok THEN due.day ELSE 1],
                                   n.val)]

\* A loop body that marks the row as an inter-library loan when its
\* renewal count does not convert, where the source passes no flag.
RowItemFlagsIll(row) ==
    LET strongs == [i \in 1..Len(row.strongs) |->
                        Strip(row.strongs[i], Whitespace)]
    IN  IF Len(strongs) # 2
        THEN [raised |-> "ValueError", item |-> NoItem]
        ELSE LET due == DateParse(strongs[1])
                 n == TimesRenewed(strongs[2])
             IN  IF ~due.ok
                 THEN [raised |-> "ValueError", item |-> NoItem]
                 ELSE [raised |-> "none",
                       item |-> [NewItem(row.input, ItemName(row.label),
                                         [ok |-> TRUE, month |-> due.month,
                                          day |-> due.day],
                                         n.val)
                                    EXCEPT !.ill = IF IntParse(strongs[2]).ok
                                                   THEN "False" ELSE "True"]]

\* One pass of the for loop of Account.items over an item row.
RowItem(row) ==
    LET strongs == [i \in 1..Len(row.strongs) |->
                        Strip(row.strongs[i], Whitespace)]
    IN  IF Len(strongs) # 2
        THEN [raised |-> "ValueError", item |-> NoItem]   \* unpacking
        ELSE LET due == DateParse(strongs[1])
                 n == TimesRenewed(strongs[2])
             IN  IF ~due.ok
                 THEN [raised |-> "ValueError", item |-> NoItem]
                 ELSE IF n.raised # "none"
                 THEN [raised |-> n.raised, item |-> NoItem]
                 ELSE [raised |-> "none",
                       item |-> NewItem(row.input, ItemName(row.label),
                                        [ok |-> TRUE, month |-> due.month,
                                         day |-> due.day],
                                        n.val)]

RECURSIVE ItemsLoop(_, _)
ItemsLoop(rows, acc) ==
    IF rows = <<>> THEN [raised |-> "none", items |-> acc]
    ELSE LET r == RowItem(Head(rows))
         IN  IF r.raised # "none"
             THEN [raised |-> r.raised, items |-> <<>>]
             ELSE ItemsLoop(Tail(rows), Append(acc, r.item))

\* The body of Account.items after the page is fetched.
ParseItems(rows) == ItemsLoop(SelectSeq(rows, is_item), <<>>)

(***************************************************************************)
(* Bounds of the model                                                     *)
(***************************************************************************)
MaxParts == 3        \* raw tokens: at most this many parts
MaxRows == 2         \* item rows on a page
MaxFinesParts == 4   \* fines text: at most this many parts
MaxItems == 2        \* renew(items): at most this many Items

(***************************************************************************)
(* Item construction on its own: Item(raw), then the derived tokens        *)
(***************************************************************************)
One == <<"1">>

TokenParts == {RENEW_PREFIX, HOLD_PREFIX, One, <<"R">>, <<"^">>}

RawTokens == {Concat(p) : p \in SeqUpTo(TokenParts, MaxParts)}

NoOutput == [kind |-> "none"]

ItemInit ==
    /\ input \in RawTokens
    /\ output = NoOutput

Construct ==
    /\ output.kind = "none"
    /\ output' = [kind |-> "item",
                  item |-> NewItem(input, None, None, None)]
    /\ UNCHANGED input

(***************************************************************************)
(* Account.items on a fetched page                                         *)
(***************************************************************************)
Title == <<"T">> \o LabelRun \o <<"A">>

CountTexts ==
    {<<>>, <<"0">>, <<"3">>, <<"1", "2">>, <<" ", "3", "\n">>,
     <<"a", "b", "c">>, <<"3", "a">>, <<"-", "1">>, <<"+", "2">>}

GoodDate == <<"1", "/", "2">>

DateTexts == {GoodDate, <<"n", "/", "a">>}

\* the class of a row's cells: the two item styles, a class that only
\* contains the word, and an unrelated one
Classes ==
    {ItemListing, ItemListing \o <<"2">>, ItemListing \o <<"3">>,
     <<"h", "e", "a", "d">>}

PageRows ==
    {[tag |-> "tr", cls |-> c, input |-> RENEW_PREFIX \o One,
      label |-> Title, strongs |-> <<d, n>>] :
        c \in Classes, d \in DateTexts, n \in CountTexts}
    \cup {[tag |-> "tr", cls |-> ItemListing, input |-> RENEW_PREFIX \o One,
           label |-> Title, strongs |-> <<GoodDate>>]}

RowsInit ==
    /\ input \in SeqUpTo(PageRows, MaxRows)
    /\ output = NoOutput

Items ==
    /\ output.kind = "none"
    /\ output' = [kind |-> "items"] @@ ParseItems(input)
    /\ UNCHANGED input

(***************************************************************************)
(* Account.fines on a fetched page                                         *)
(***************************************************************************)
FinesParts ==
    {YouOwe, <<" ">>, <<"\n">>, <<"$">>, <<"1", "2", ".", "5", "0">>, <<"5">>}

FinesTexts == {Concat(p) : p \in SeqUpTo(FinesParts, MaxFinesParts)}

FinesInit ==
    /\ input \in FinesTexts
    /\ output = NoOutput

Fines ==
    /\ output.kind = "none"
    /\ output' = [kind |-> "fines"] @@ ParseFines(input)
    /\ UNCHANGED input

(***************************************************************************)
(* The catalog site, as far as the code looks at its pages                 *)
(***************************************************************************)
Welcome == <<"W", "e", "l", "c", "o", "m", "e", ",", " ">>

\* \w of the pattern r'Welcome, \w+'
WordChars ==
    Digits \cup {"_"}
    \cup {"a", "b", "c", "d", "e", "f", "g", "h", "i", "j", "k", "l", "m",
          "n", "o", "p", "q", "r", "s", "t", "u", "v", "w", "x", "y", "z"}
    \cup {"A", "B", "C", "D", "E", "F", "G", "H", "I", "J", "K", "L", "M",
          "N", "O", "P", "Q", "R", "S", "T", "U", "V", "W", "X", "Y", "Z"}

\* what the site writes into a page of a signed-in patron
GreetBodies == {Welcome \o <<"A", "l">>, <<"<">> \o Welcome \o <<"_", ">">>}

\* and into any other page: no greeting, or text that only resembles one
NoGreetBodies ==
    {<<"<", ">">>, Welcome, Welcome \o <<"!">>,
     <<"W", "e", "l", "c", "o", "m", "e", ",", "A">>}

MyAccount == "My Account"
RenewMyMaterials == "Renew My Materials"
ReviewMyAccount == "Review My Account"
AccountSummary == "Account Summary"
Logout == "Logout"

NavLinks == {MyAccount, Logout}

Two == <<"2">>

\* the checkboxes of the patron's two loans, in page order
Catalogue == <<RENEW_PREFIX \o One, RENEW_PREFIX \o Two>>

Boxes == {Catalogue[i] : i \in 1..Len(Catalogue)}

NoSummary == [present |-> FALSE, text |-> <<>>]

NoResponse ==
    [loaded |-> FALSE, kind |-> "none", std |-> TRUE, body |-> <<>>,
     links |-> {}, formname |-> "", fields |-> {}, boxes |-> {},
     allopt |-> FALSE, h3 |-> None, rows |-> <<>>, summary |-> NoSummary]

Page(kind, std, body, links) ==
    [NoResponse EXCEPT !.loaded = TRUE, !.kind = kind, !.std = std,
                       !.body = body, !.links = links]

\* a set, or the set with one member left out (the layout changed)
Variants(S) == {S} \cup {S \ {x} : x \in S}

\* the links of a page from which the code goes on by "My Account" only
NavVariants == {NavLinks, NavLinks \ {MyAccount}}

LoginFields == {"user_id", "password"}

\* pages served without a live session: the login form and nothing else
AnonPages ==
    {[Page("anon", f = LoginFields, b, {}) EXCEPT
         !.formname = IF f = {} THEN "" ELSE "loginform", !.fields = f] :
        b \in NoGreetBodies, f \in {LoginFields, {"user_id"}, {}}}

HomePages ==
    {[Page("home", l = NavLinks /\ ~withform, b, l) EXCEPT
         !.formname = IF withform THEN "loginform" ELSE "",
         !.fields = IF withform THEN LoginFields ELSE {}] :
        b \in GreetBodies, l \in Variants(NavLinks), withform \in BOOLEAN}

AccountLinks == NavLinks \cup {RenewMyMaterials, ReviewMyAccount}

AccountPages ==
    {Page("account", l = AccountLinks, b, l) :
        b \in GreetBodies,
        l \in {AccountLinks} \cup
              {AccountLinks \ {x} : x \in AccountLinks \ {Logout}}}

\* the row of one loan: the second loan is an inter-library loan, whose
\* renewal count is rendered blank
LoanRow(box, done) ==
    [tag |-> "tr",
     cls |-> IF box = Catalogue[1] THEN ItemListing
             ELSE ItemListing \o <<"2">>,
     input |-> box, label |-> Title,
     strongs |-> <<GoodDate,
                   IF box # Catalogue[1] THEN <<>>
                   ELSE IF box \in done THEN <<"1">> ELSE <<"0">> >>]

LoanRows(boxes, done) ==
    LET shown == SelectSeq(Catalogue, LAMBDA b : b \in boxes)
    IN  [i \in 1..Len(shown) |-> LoanRow(shown[i], done)]

RenewPages(done) ==
    {[Page("renew", l = NavLinks /\ bx = Boxes /\ sel = "all", b, l) EXCEPT
         !.formname = "renewitems",
         !.fields = IF sel = "absent" THEN {} ELSE {"selection_type"},
         !.allopt = (sel = "all"),
         !.boxes = bx,
         !.rows = LoanRows(bx, done)] :
        b \in GreetBodies, l \in NavVariants, bx \in SUBSET Boxes,
        sel \in {"absent", "other", "all"}}
    \cup {Page("renew", FALSE, b, NavLinks) : b \in GreetBodies}

ReviewLinks == NavLinks \cup {AccountSummary}

ReviewPages ==
    {Page("review", l = ReviewLinks, b, l) :
        b \in GreetBodies,
        l \in {ReviewLinks} \cup
              {ReviewLinks \ {x} : x \in ReviewLinks \ {Logout}}}

SummaryTexts ==
    {YouOwe \o <<"$", "5">>, YouOwe \o <<"\n", " ", "$", "5">>}

SummaryPages ==
    {[Page("summary", l = NavLinks /\ sm.present, b, l) EXCEPT
         !.summary = sm] :
        b \in GreetBodies, l \in NavVariants,
        sm \in {NoSummary} \cup
               {[present |-> TRUE, text |-> t] : t \in SummaryTexts}}

Renewed == "Renewed"

StatusPages ==
    {[Page("status", l = NavLinks /\ h # None, b, l) EXCEPT !.h3 = h] :
        b \in GreetBodies, l \in NavVariants, h \in {None, Renewed}}

\* the page an HTTP error status comes with
ErrorPage == Page("error", FALSE, <<"<", ">">>, {})

(***************************************************************************)
(* class Account: one browser, one session                                 *)
(***************************************************************************)
NoForm == [name |-> "", fields |-> {}, boxes |-> {}, allopt |-> FALSE,
           selected |-> {}, selection_type |-> "default"]

NoFines == [neg |-> FALSE, coeff |-> 0, exp |-> 0]

NoResult == [kind |-> "none", items |-> <<>>, fines |-> NoFines,
             status |-> None]

\* What the running (or last) call did: the requests and checks it made in
\* order, the renewal form it selected and what it submitted of it, what
\* the site had renewed when it began, whether it began on a session the
\* site had ended since the last successful call, and whether the site or
\* the network departed from the usual pages during it.
NoHist == [trace |-> <<>>, selected |-> {}, all |-> FALSE, form |-> NoForm,
           before |-> {}, stale |-> FALSE, fault |-> FALSE,
           expired |-> FALSE, entered |-> FALSE]

NavOps == {"items", "fines", "renew", "renew_all"}

Ops == NavOps \cup {"login", "logout"}

\* raw tokens a caller builds Items from: the first loan's bare token, the
\* second loan's under the hold prefix, and one the site no longer lists
RawArgs == {One, HOLD_PREFIX \o Two, RENEW_PREFIX \o <<"3">>}

\* Account.__init__
AccountInit ==
    /\ response = NoResponse
    /\ form = NoForm
    /\ session = FALSE
    /\ renewed = {}
    /\ pc = "idle"
    /\ op = None
    /\ args = <<>>
    /\ todo = <<>>
    /\ error = "none"
    /\ result = NoResult
    /\ hist = NoHist

Init ==
    /\ input = <<>>
    /\ output = NoOutput
    /\ AccountInit

\* A plausible slip: the pattern asks for no name after the greeting.
LoggedInNameless(r) ==
    \E i \in 1..Len(r.body) :
        /\ StartsWith(Drop(r.body, i - 1), Welcome)
        /\ Len(r.body) >= i + Len(Welcome)

\* Account.logged_in, of the response r = self._browser.response()
LoggedIn(r) ==
    IF ~r.loaded THEN FALSE
    ELSE \E i \in 1..Len(r.body) :
            /\ StartsWith(Drop(r.body, i - 1), Welcome)
            /\ Len(r.body) >= i + Len(Welcome)
            /\ r.body[i + Len(Welcome)] \in WordChars

logged_in == LoggedIn(response)

Log(ev) == [hist EXCEPT !.trace = Append(@, ev)]

\* the call returns
Return(h, r) ==
    /\ pc' = "idle"
    /\ error' = "none"
    /\ result' = r
    /\ hist' = h
    /\ todo' = <<>>
    /\ UNCHANGED args

\* the call ends with an exception
Raise(h, e) ==
    /\ pc' = "idle"
    /\ error' = e
    /\ result' = NoResult
    /\ hist' = h
    /\ todo' = <<>>
    /\ UNCHANGED args

\* the call goes on at the next statement
Goto(h, next) ==
    /\ pc' = next
    /\ hist' = h
    /\ UNCHANGED <<error, result, args, todo>>

\* A request of the browser: the server answers with one of `pages`, or
\* the transport fails (no response is left), or the server answers with
\* an HTTP error status (the error page is left).
Request(h, pages, next) ==
    \/ \E p \in pages :
          /\ response' = p
          /\ Goto([h EXCEPT !.fault = @ \/ ~p.std], next)
    \/ /\ response' = NoResponse
       /\ Raise([h EXCEPT !.fault = TRUE], "URLError")
    \/ /\ response' = ErrorPage
       /\ Raise([h EXCEPT !.fault = TRUE], "HTTPError")

\* what the site serves for a followed link
Served(link) ==
    IF ~session \/ link = Logout THEN AnonPages
    ELSE CASE link = MyAccount -> AccountPages
           [] link = RenewMyMaterials -> RenewPages(renewed)
           [] link = ReviewMyAccount -> ReviewPages
           [] link = AccountSummary -> SummaryPages

\* A follow_link that requests the link's page whether or not the current
\* page shows the link.
FollowLinkBlind(link, next) ==
    /\ form' = NoForm
    /\ session' = (session /\ link # Logout)
    /\ UNCHANGED <<renewed, op, pvars>>
    /\ Request(Log(link), Served(link), next)

\* self._browser.follow_link(text=link)
FollowLink(link, next) ==
    /\ form' = NoForm
    /\ session' = (session /\ link # Logout)
    /\ UNCHANGED <<renewed, op, pvars>>
    /\ IF link \notin response.links
       THEN /\ Raise(hist, "LinkNotFoundError")
            /\ UNCHANGED response
       ELSE Request(Log(link), Served(link), next)

\* A caller invokes a public operation.
Call ==
    /\ pc = "idle"
    /\ \E o \in Ops :
          /\ op' = o
          /\ \E a \in SeqUpTo(RawArgs, MaxItems) :
                /\ (o # "renew" => a = <<>>)
                /\ args' = a
          /\ pc' = CASE o \in NavOps -> "get_my_account"
                      [] o = "login" -> "login"
                      [] o = "logout" -> "logout"
    /\ error' = "none"
    /\ result' = NoResult
    /\ todo' = <<>>
    /\ hist' = [NoHist EXCEPT
                   !.before = renewed,
                   !.stale = hist.expired /\ ~session /\ response.std,
                   !.entered = logged_in]
    /\ UNCHANGED <<response, form, session, renewed, pvars>>

\* A navigation that goes for the first link without the guard.
GetMyAccountUnguarded ==
    /\ pc = "get_my_account"
    /\ Goto(hist, "follow_my_account")
    /\ UNCHANGED <<response, form, session, renewed, op, pvars>>

\* _get_my_account: if not self.logged_in: self.login()
GetMyAccount ==
    /\ pc = "get_my_account"
    /\ Goto(Log(IF logged_in THEN "logged_in" ELSE "not logged_in"),
            IF logged_in THEN "follow_my_account" ELSE "login")
    /\ UNCHANGED <<response, form, session, renewed, op, pvars>>

\* A login that returns at once when the greeting is already shown.
LoginHomepageGuarded ==
    /\ pc = "login"
    /\ IF logged_in
       THEN /\ IF op = "login"
               THEN Return(hist, NoResult)
               ELSE Goto(hist, "follow_my_account")
            /\ UNCHANGED <<response, form>>
       ELSE /\ form' = NoForm
            /\ Request(Log("open"), IF session THEN HomePages ELSE AnonPages,
                       "login_form")
    /\ UNCHANGED <<session, renewed, op, pvars>>

\* login: self._get_homepage()
LoginHomepage ==
    /\ pc = "login"
    /\ form' = NoForm
    /\ Request(Log("open"), IF session THEN HomePages ELSE AnonPages,
               "login_form")
    /\ UNCHANGED <<session, renewed, op, pvars>>

\* login: select_form(name='loginform'); browser['user_id'] = ...;
\* browser['password'] = ...
LoginForm ==
    /\ pc = "login_form"
    /\ IF response.formname # "loginform"
       THEN /\ Raise(hist, "FormNotFoundError")
            /\ UNCHANGED form
       ELSE /\ form' = [NoForm EXCEPT !.name = response.formname,
                                      !.fields = response.fields]
            /\ IF LoginFields \subseteq response.fields
               THEN Goto(Log("select loginform"), "login_submit")
               ELSE Raise(Log("select loginform"), "ControlNotFoundError")
    /\ UNCHANGED <<response, session, renewed, op, pvars>>

\* login: self._browser.submit(); the site accepts the credentials or not
LoginSubmit ==
    /\ pc = "login_submit"
    /\ form' = NoForm
    /\ \E accepted \in BOOLEAN :
          /\ session' = (session \/ accepted)
          /\ Request([Log("submit loginform") EXCEPT
                         !.fault = @ \/ ~accepted],
                     IF session' THEN HomePages ELSE AnonPages,
                     "login_check")
    /\ UNCHANGED <<renewed, op, pvars>>

\* A plausible slip: the check after the submit is missing.
LoginUnchecked ==
    /\ pc = "login_check"
    /\ IF op = "login"
       THEN Return(hist, NoResult)
       ELSE Goto(hist, "follow_my_account")
    /\ UNCHANGED <<response, form, session, renewed, op, pvars>>

\* A login that starts over when the page after it shows no greeting.
LoginCheckRetry ==
    /\ pc = "login_check"
    /\ IF ~logged_in
       THEN Goto(Log("not logged_in"), "login")
       ELSE IF op = "login"
            THEN Return(Log("logged_in"), NoResult)
            ELSE Goto(Log("logged_in"), "follow_my_account")
    /\ UNCHANGED <<response, form, session, renewed, op, pvars>>

\* login: if not self.logged_in: raise ValueError(...)
LoginCheck ==
    /\ pc = "login_check"
    /\ IF ~logged_in
       THEN Raise(Log("not logged_in"), "ValueError")
       ELSE IF op = "login"
            THEN Return(Log("logged_in"), NoResult)
            ELSE Goto(Log("logged_in"), "follow_my_account")
    /\ UNCHANGED <<response, form, session, renewed, op, pvars>>

\* _get_my_account: return self._browser.follow_link(text='My Account')
FollowMyAccount ==
    /\ pc = "follow_my_account"
    /\ FollowLink(MyAccount,
                  IF op = "fines" THEN "follow_review_my_account"
                  ELSE "follow_renew_my_materials")

\* _get_renew_my_materials
FollowRenewMyMaterials ==
    /\ pc = "follow_renew_my_materials"
    /\ FollowLink(RenewMyMaterials,
                  CASE op = "items" -> "items"
                    [] op = "renew" -> "renew"
                    [] op = "renew_all" -> "renew_all")

\* _get_review_my_account
FollowReviewMyAccount ==
    /\ pc = "follow_review_my_account"
    /\ FollowLink(ReviewMyAccount, "follow_account_summary")

\* _get_account_summary
FollowAccountSummary ==
    /\ pc = "follow_account_summary"
    /\ FollowLink(AccountSummary, "fines")

\* An items() that answers from a list kept since before any renewal
\* instead of the rows of the page just fetched.
ItemsParseStale ==
    /\ pc = "items"
    /\ LET r == ParseItems(LoanRows(response.boxes, {}))
       IN  IF r.raised # "none"
           THEN Raise(Log("parse"), r.raised)
           ELSE Return(Log("parse"),
                       [NoResult EXCEPT !.kind = "items", !.items = r.items])
    /\ UNCHANGED <<response, form, session, renewed, op, pvars>>

\* items: soup = self._soup(), then the loop over the item rows
ItemsParse ==
    /\ pc = "items"
    /\ LET r == ParseItems(response.rows)
       IN  IF r.raised # "none"
           THEN Raise(Log("parse"), r.raised)
           ELSE Return(Log("parse"),
                       [NoResult EXCEPT !.kind = "items", !.items = r.items])
    /\ UNCHANGED <<response, form, session, renewed, op, pvars>>

\* fines: soup.find('li', class_='summary').ul.li, then the conversion
FinesParse ==
    /\ pc = "fines"
    /\ IF ~response.summary.present
       THEN Raise(Log("parse"), "AttributeError")
       ELSE LET r == ParseFines(response.summary.text)
            IN  IF r.raised # "none"
                THEN Raise(Log("parse"), r.raised)
                ELSE Return(Log("parse"),
                            [NoResult EXCEPT
                                !.kind = "fines",
                                !.fines = [neg |-> r.neg, coeff |-> r.coeff,
                                           exp |-> r.exp]])
    /\ UNCHANGED <<response, form, session, renewed, op, pvars>>

\* self._browser.select_form(name='renewitems')
SelectRenewItems ==
    IF response.formname # "renewitems" THEN NoForm
    ELSE [NoForm EXCEPT !.name = response.formname,
                        !.fields = response.fields,
                        !.boxes = response.boxes,
                        !.allopt = response.allopt]

RECURSIVE RenewTokens(_)
\* [i.renew_token for i in items]
RenewTokens(raws) ==
    IF raws = <<>> THEN <<>>
    ELSE <<renew_token(NewItem(Head(raws), None, None, None))>>
         \o RenewTokens(Tail(raws))

\* renew: select_form(name='renewitems') and the list of renew_tokens
RenewSelect ==
    /\ pc = "renew"
    /\ form' = SelectRenewItems
    /\ IF form'.name = ""
       THEN /\ Raise(hist, "FormNotFoundError")
            /\ UNCHANGED todo
       ELSE /\ pc' = "renew_find"
            /\ todo' = RenewTokens(args)
            /\ hist' = [Log("select renewitems") EXCEPT !.form = form']
            /\ UNCHANGED <<error, result, args>>
    /\ UNCHANGED <<response, session, renewed, op, pvars>>

\* A plausible slip: a token without a control is skipped.
RenewFindSkipping ==
    /\ pc = "renew_find"
    /\ IF todo = <<>>
       THEN /\ Goto(hist, "submit")
            /\ UNCHANGED form
       ELSE /\ form' = [form EXCEPT
                           !.selected = @ \cup ({Head(todo)} \cap form.boxes)]
            /\ pc' = "renew_find"
            /\ todo' = Tail(todo)
            /\ UNCHANGED <<error, result, args, hist>>
    /\ UNCHANGED <<response, session, renewed, op, pvars>>

\* A plausible slip: a selection replaces the ones made before it.
RenewFindLast ==
    /\ pc = "renew_find"
    /\ IF todo = <<>>
       THEN /\ Goto(hist, "submit")
            /\ UNCHANGED form
       ELSE IF Head(todo) \notin form.boxes
       THEN /\ Raise(hist, "ControlNotFoundError")
            /\ UNCHANGED form
       ELSE /\ form' = [form EXCEPT !.selected = {Head(todo)}]
            /\ pc' = "renew_find"
            /\ todo' = Tail(todo)
            /\ UNCHANGED <<error, result, args, hist>>
    /\ UNCHANGED <<response, session, renewed, op, pvars>>

\* renew: one pass of
\*   for renew_token in ...: find_control(renew_token).items[0].selected = True
\* and, the list done, the way on to submit()
RenewFind ==
    /\ pc = "renew_find"
    /\ IF todo = <<>>
       THEN /\ Goto(hist, "submit")
            /\ UNCHANGED form
       ELSE IF Head(todo) \notin form.boxes
       THEN /\ Raise(hist, "ControlNotFoundError")
            /\ UNCHANGED form
       ELSE /\ form' = [form EXCEPT !.selected = @ \cup {Head(todo)}]
            /\ pc' = "renew_find"
            /\ todo' = Tail(todo)
            /\ UNCHANGED <<error, result, args, hist>>
    /\ UNCHANGED <<response, session, renewed, op, pvars>>

\* A plausible slip: a missing selection_type field is passed over.
RenewAllLenient ==
    /\ pc = "renew_all"
    /\ form' = [SelectRenewItems EXCEPT !.selection_type = "all"]
    /\ IF form'.name = ""
       THEN Raise(hist, "FormNotFoundError")
       ELSE Goto([Log("select renewitems") EXCEPT !.form = form'], "submit")
    /\ UNCHANGED <<response, session, renewed, op, pvars>>

\* renew_all: select_form(name='renewitems') and
\* form.set_value(['all'], name='selection_type')
RenewAllSelect ==
    /\ pc = "renew_all"
    /\ LET f == SelectRenewItems
       IN  IF f.name = ""
           THEN /\ Raise(hist, "FormNotFoundError")
                /\ form' = f
           ELSE IF "selection_type" \notin f.fields
           THEN /\ Raise([Log("select renewitems") EXCEPT !.form = f],
                         "ControlNotFoundError")
                /\ form' = f
           ELSE IF ~f.allopt
           THEN /\ Raise([Log("select renewitems") EXCEPT !.form = f],
                         "ItemNotFoundError")
                /\ form' = f
           ELSE /\ form' = [f EXCEPT !.selection_type = "all"]
                /\ Goto([Log("select renewitems") EXCEPT !.form = f],
                        "submit")
    /\ UNCHANGED <<response, session, renewed, op, pvars>>

\* renew, renew_all: self._browser.submit() of the renewal form; a live
\* session renews what the form selects
RenewSubmit ==
    /\ pc = "submit"
    /\ form' = NoForm
    /\ renewed' = IF ~session THEN renewed
                  ELSE IF form.selection_type = "all" THEN Boxes
                  ELSE renewed \cup form.selected
    /\ Request([Log("submit renewitems") EXCEPT
                   !.selected = form.selected,
                   !.all = (form.selection_type = "all")],
               IF session THEN StatusPages ELSE AnonPages,
               "renewal_status")
    /\ UNCHANGED <<session, op, pvars>>

\* _renewal_status: self._soup().h3.text.strip()
RenewalStatus ==
    /\ pc = "renewal_status"
    /\ IF response.h3 = None
       THEN Raise(Log("parse"), "AttributeError")
       ELSE Return(Log("parse"),
                   [NoResult EXCEPT !.kind = "status", !.status = response.h3])
    /\ UNCHANGED <<response, form, session, renewed, op, pvars>>

\* logout: self._get_homepage()
LogoutHomepage ==
    /\ pc = "logout"
    /\ form' = NoForm
    /\ Request(Log("open"), IF session THEN HomePages ELSE AnonPages,
               "logout_follow")
    /\ UNCHANGED <<session, renewed, op, pvars>>

\* logout: self._browser.follow_link(text='Logout')
LogoutFollow ==
    /\ pc = "logout_follow"
    /\ FollowLink(Logout, "idle")

\* The site ends the patron's session (a timeout), at any moment.
Expire ==
    /\ session
    /\ session' = FALSE
    /\ hist' = IF pc = "idle"
               THEN [hist EXCEPT !.expired = (error = "none" /\ op \in NavOps \cup {"login"})]
               ELSE [hist EXCEPT !.fault = TRUE]
    /\ UNCHANGED <<response, form, renewed, pc, op, args, todo, error,
                   result, pvars>>

Next ==
    \/ Call
    \/ GetMyAccount
    \/ LoginHomepage
    \/ LoginForm
    \/ LoginSubmit
    \/ LoginCheck
    \/ FollowMyAccount
    \/ FollowRenewMyMaterials
    \/ FollowReviewMyAccount
    \/ FollowAccountSummary
    \/ ItemsParse
    \/ FinesParse
    \/ RenewSelect
    \/ RenewFind
    \/ RenewAllSelect
    \/ RenewSubmit
    \/ RenewalStatus
    \/ LogoutHomepage
    \/ LogoutFollow
    \/ Expire

Spec == Init /\ [][Next]_vars

InitItem == ItemInit /\ AccountInit

NextItem == Construct /\ UNCHANGED svars

SpecItem == InitItem /\ [][NextItem]_vars

InitRows == RowsInit /\ AccountInit

NextRows == Items /\ UNCHANGED svars

SpecRows == InitRows /\ [][NextRows]_vars

InitFines == FinesInit /\ AccountInit

NextFines == Fines /\ UNCHANGED svars

SpecFines == InitFines /\ [][NextFines]_vars

(***************************************************************************)
(* Properties                                                              *)
(***************************************************************************)
Events(h) == {h.trace[i] : i \in 1..Len(h.trace)}

Count(h, ev) == Cardinality({i \in 1..Len(h.trace) : h.trace[i] = ev})

LinkTexts ==
    {MyAccount, RenewMyMaterials, ReviewMyAccount, AccountSummary, Logout}

RequestEvents == LinkTexts \cup {"open", "submit loginform", "submit renewitems"}

\* the request the current response answers, "" before the first one
LastRequest(h) ==
    LET at == {i \in 1..Len(h.trace) : h.trace[i] \in RequestEvents}
    IN  IF at = {} THEN ""
        ELSE h.trace[CHOOSE i \in at : \A j \in at : j <= i]

\* the last link of the chain the operation navigates
LastLink(o) == IF o = "fines" THEN AccountSummary ELSE RenewMyMaterials

\* C1: when the site ended the session after a successful operation and
\* nothing else goes wrong, the next items(), fines(), renew() or
\* renew_all() submits the login form again and follows its link chain to
\* the end.
C1_ExpiryIsDetectedAndRecovered ==
    (pc = "idle" /\ op \in NavOps /\ hist.stale /\ ~hist.fault)
        => /\ Count(hist, "submit loginform") = 1
           /\ LastLink(op) \in Events(hist)
           /\ error # "LinkNotFoundError"

\* C2: once the login form was submitted and the page that came back holds
\* no greeting, the call has ended (or is about to check) with the login's
\* ValueError: it followed no link, submitted no renewal form and returned
\* nothing.
C2_FailedLoginEndsTheCall ==
    (/\ LastRequest(hist) = "submit loginform"
     /\ response.loaded
     /\ response.kind # "error"
     /\ response.body \notin GreetBodies
     /\ pc # "login_check")
        => /\ pc = "idle"
           /\ error = "ValueError"
           /\ Events(hist) \cap LinkTexts = {}
           /\ "submit renewitems" \notin Events(hist)
           /\ result = NoResult
           /\ renewed = hist.before

C2_Witness ==
    /\ pc = "idle"
    /\ op = "renew"
    /\ error = "ValueError"
    /\ LastRequest(hist) = "submit loginform"
    /\ response.body = Welcome \o <<"!">>

\* C3: logged_in is false while no response was fetched, false when the
\* latest response holds no "Welcome, <name>", and true exactly when it
\* holds one.
C3_LoggedInIffGreeting ==
    /\ ~response.loaded => ~logged_in
    /\ response.loaded => (logged_in <=> response.body \in GreetBodies)

C3_Witness ==
    /\ pc = "idle"
    /\ hist.trace # <<>>
    /\ hist.trace[Len(hist.trace)] = "not logged_in"
    /\ response.loaded
    /\ response.body = Welcome \o <<"!">>

\* the renew_token the site uses for each raw token a caller may pass
ExpectedRenewToken(r) ==
    CASE r = <<"1">> -> <<"R", "E", "N", "E", "W", "^", "1">>
      [] r = <<"H", "L", "D", "^", "T", "I", "T", "L", "E", "^", "2">>
            -> <<"R", "E", "N", "E", "W", "^", "2">>
      [] r = <<"R", "E", "N", "E", "W", "^", "3">>
            -> <<"R", "E", "N", "E", "W", "^", "3">>

Wanted == {ExpectedRenewToken(args[i]) : i \in 1..Len(args)}

FormSelected == hist.form.name = "renewitems"

\* C4: when renew(items) has selected the renewal form and some item's
\* renewal token has no control on it, the form is never submitted, the
\* site renews nothing, and the call ends with ControlNotFoundError.
C4_RenewIsAllOrNothing ==
    (op = "renew" /\ FormSelected /\ ~(Wanted \subseteq hist.form.boxes))
        => /\ "submit renewitems" \notin Events(hist)
           /\ renewed = hist.before
           /\ pc \in {"renew_find", "idle"}
           /\ pc = "idle" => (error = "ControlNotFoundError"
                               /\ result = NoResult)

C4_Witness ==
    /\ pc = "idle"
    /\ op = "renew"
    /\ args = <<One, RENEW_PREFIX \o <<"3">> >>
    /\ session
    /\ RENEW_PREFIX \o One \in hist.form.boxes
    /\ error = "ControlNotFoundError"

\* C5: when every item has a control on the selected renewal form, renew
\* submits the form exactly once and the controls selected in it are
\* exactly the items' renew_tokens.
C5_RenewSubmitsExactlyTheItems ==
    (/\ op = "renew" /\ FormSelected /\ Wanted \subseteq hist.form.boxes
     /\ pc \in {"renewal_status", "idle"})
        => /\ Count(hist, "submit renewitems") = 1
           /\ hist.selected = Wanted
           /\ ~hist.all

C5_Witness ==
    /\ pc = "idle"
    /\ op = "renew"
    /\ args = <<HOLD_PREFIX \o Two, One>>
    /\ error = "none"
    /\ hist.selected = Boxes
    /\ renewed = Boxes

\* C6: renew_all() on a renewal form without a selection_type field ends
\* with an error before any submission; the site renews nothing.
C6_RenewAllNeedsSelectionType ==
    (/\ op = "renew_all" /\ FormSelected
     /\ "selection_type" \notin hist.form.fields)
        => /\ pc = "idle"
           /\ error = "ControlNotFoundError"
           /\ "submit renewitems" \notin Events(hist)
           /\ renewed = hist.before
           /\ result = NoResult

C6_Witness ==
    /\ pc = "idle"
    /\ op = "renew_all"
    /\ session
    /\ logged_in
    /\ FormSelected
    /\ "selection_type" \notin hist.form.fields
    /\ error = "ControlNotFoundError"

\* tokens that carry no recognized prefix
BareTokens ==
    {t \in RawTokens :
        ~StartsWith(t, RENEW_PREFIX) /\ ~StartsWith(t, HOLD_PREFIX)}

\* C7: an Item built from a bare token t, from RENEW^t or from HLD^TITLE^t
\* has renew_token RENEW^t and hold_token HLD^TITLE^t.
C7_DerivedTokensIgnoreThePrefix ==
    output.kind = "item" =>
        \A t \in BareTokens :
            input \in {t, RENEW_PREFIX \o t, HOLD_PREFIX \o t}
                => /\ renew_token(output.item) = RENEW_PREFIX \o t
                   /\ hold_token(output.item) = HOLD_PREFIX \o t

C7_Witness ==
    /\ output.kind = "item"
    /\ input = HOLD_PREFIX \o <<"R", "1">>
    /\ renew_token(output.item) = RENEW_PREFIX \o <<"R", "1">>

HasPrefixInside(t) == Contains(t, RENEW_PREFIX) \/ Contains(t, HOLD_PREFIX)

\* C8 as stated: the token stored by Item(raw) holds neither prefix, for
\* every raw string.
C8_StoredTokenHoldsNoPrefix ==
    output.kind = "item" => ~HasPrefixInside(output.item.token)

\* C8 as amended: the stored token is the raw string without one leading
\* prefix; it holds neither prefix when the raw string is a prefix-free
\* token under at most one recognized prefix.
C8_OneLeadingPrefixIsRemoved ==
    output.kind = "item" =>
        /\ \A t \in RawTokens :
              (~HasPrefixInside(t)
               /\ input \in {t, RENEW_PREFIX \o t, HOLD_PREFIX \o t})
                  => output.item.token = t
        /\ \A p \in {RENEW_PREFIX, HOLD_PREFIX} :
              StartsWith(input, p) => p \o output.item.token = input
        /\ input \in BareTokens => output.item.token = input

C8_Witness ==
    /\ output.kind = "item"
    /\ input = RENEW_PREFIX \o HOLD_PREFIX \o One
    /\ output.item.token = HOLD_PREFIX \o One

\* the item rows of the page under conversion
ItemRows ==
    SelectSeq(input, LAMBDA r : r.cls # <<"h", "e", "a", "d">>)

\* the renewal counts the claim names: blank, numerals, other text
ExpectedCount(n) ==
    CASE n = <<>> -> 0
      [] n = <<"0">> -> 0
      [] n = <<"3">> -> 3
      [] n = <<"1", "2">> -> 12
      [] n = <<" ", "3", "\n">> -> 3
      [] n = <<"a", "b", "c">> -> 0
      [] n = <<"3", "a">> -> 0

Unsigned == CountTexts \ {<<"-", "1">>, <<"+", "2">>}

\* C9: when every item row has its two fields and a date that parses,
\* items() does not raise whatever the renewal-count texts are, and gives
\* 0 for a blank count, the integer for a numeral, 0 for other text.
C9_RenewalCountDefaultsToZero ==
    (/\ output.kind = "items"
     /\ \A k \in 1..Len(ItemRows) :
           /\ Len(ItemRows[k].strongs) = 2
           /\ ItemRows[k].strongs[1] = GoodDate)
        => /\ output.raised = "none"
           /\ Len(output.items) = Len(ItemRows)
           /\ \A k \in 1..Len(ItemRows) :
                 ItemRows[k].strongs[2] \in Unsigned
                    => output.items[k].times_renewed
                           = ExpectedCount(ItemRows[k].strongs[2])

C9_Witness ==
    /\ output.kind = "items"
    /\ output.raised = "none"
    /\ Len(input) = 2
    /\ Len(output.items) = 2
    /\ input[1].strongs = <<GoodDate, <<"a", "b", "c">> >>
    /\ input[2].strongs = <<GoodDate, <<"3">> >>
    /\ output.items[1].times_renewed = 0
    /\ output.items[2].times_renewed = 3

\* the amounts the modelled texts hold, as exact decimals
Amounts ==
    {[text |-> <<"1", "2", ".", "5", "0">>, coeff |-> 1250, exp |-> -2],
     [text |-> <<"5">>, coeff |-> 5, exp |-> 0]}

\* C10: for "You owe", any run of whitespace, "$" and an amount, fines()
\* returns exactly the amount and does not raise.
C10_FinesToleratesWhitespace ==
    output.kind = "fines" =>
        \A ws \in SeqUpTo({" ", "\n"}, MaxFinesParts), a \in Amounts :
            input = YouOwe \o ws \o <<"$">> \o a.text
                => /\ output.raised = "none"
                   /\ ~output.neg
                   /\ output.coeff = a.coeff
                   /\ output.exp = a.exp

\* the rows whose cells carry one of the two item classes, in page order
TaggedRows ==
    SelectSeq(input, LAMBDA r : r.cls \in {ItemListing, ItemListing \o <<"2">>})

WellFormed(r) == Len(r.strongs) = 2 /\ r.strongs[1] = GoodDate

\* C11: items() returns one Item, in page order, for every row of class
\* itemlisting or itemlisting2, extracted the same way for both styles, and
\* no Item for a row of any other class.
C11_ItemsAreTheTaggedRows ==
    (/\ output.kind = "items"
     /\ \A k \in 1..Len(TaggedRows) : WellFormed(TaggedRows[k]))
        => /\ output.raised = "none"
           /\ Len(output.items) = Len(TaggedRows)
           /\ \A k \in 1..Len(TaggedRows) :
                 /\ output.items[k].token = One
                 /\ output.items[k].name = <<"T", " ", "-", "-", " ", "A">>
                 /\ output.items[k].due_date
                        = [ok |-> TRUE, month |-> 1, day |-> 2]
                 /\ TaggedRows[k].strongs[2] \in Unsigned
                        => output.items[k].times_renewed
                               = ExpectedCount(TaggedRows[k].strongs[2])

\* C12: when the due-date text of some item row does not parse as a date,
\* items() raises for the whole call: no Item list is returned, neither
\* with a default date for that row nor with the rows before it.
C12_BadDateFailsTheCall ==
    (/\ output.kind = "items"
     /\ \E k \in 1..Len(ItemRows) :
           /\ Len(ItemRows[k].strongs) = 2
           /\ ItemRows[k].strongs[1] \notin {GoodDate})
        => /\ output.raised = "ValueError"
           /\ output.items = <<>>

C12_Witness ==
    /\ output.kind = "items"
    /\ Len(input) = 2
    /\ input[1].cls = ItemListing
    /\ input[1].strongs = <<GoodDate, <<"3">> >>
    /\ input[2].cls = ItemListing \o <<"2">>
    /\ input[2].strongs = << <<"n", "/", "a">>, <<"3">> >>
    /\ output.raised = "ValueError"
    /\ output.items = <<>>

IsPrefix(s, t) == Len(s) <= Len(t) /\ \A i \in 1..Len(s) : s[i] = t[i]

\* what a call does before its first link: the guard alone, or the guard
\* and a login
GuardPassed == <<"logged_in">>

GuardLogin ==
    <<"not logged_in", "open", "select loginform", "submit loginform",
      "logged_in">>

LoginFailed ==
    <<"not logged_in", "open", "select loginform", "submit loginform",
      "not logged_in">>

Chain(o) ==
    IF o = "fines" THEN <<MyAccount, ReviewMyAccount, AccountSummary>>
    ELSE <<MyAccount, RenewMyMaterials>>

AfterChain(o) ==
    IF o \in {"items", "fines"} THEN <<"parse">>
    ELSE <<"select renewitems", "submit renewitems", "parse">>

\* C13: in every call of items(), fines(), renew() or renew_all() the
\* guard (and the login it triggers) comes before the first link, the
\* links are followed in the order of the operation's chain, and form
\* selection and parsing come only after the last link.
C13_GuardThenChainThenParse ==
    op \in NavOps =>
        \/ IsPrefix(hist.trace, LoginFailed)
        \/ \E g \in {GuardPassed, GuardLogin} :
              IsPrefix(hist.trace, g \o Chain(op) \o AfterChain(op))

C13_Witness ==
    /\ pc = "idle"
    /\ op = "fines"
    /\ error = "none"
    /\ hist.trace = GuardLogin \o Chain("fines") \o AfterChain("fines")

\* the login of the call got as far as a filled-in login form
LoginFormFilled ==
    /\ "select loginform" \in Events(hist)
    /\ pc # "login_submit"
    /\ ~(pc = "idle" /\ error = "ControlNotFoundError")

StepLink ==
    [p \in {"follow_my_account", "follow_renew_my_materials",
            "follow_review_my_account", "follow_account_summary"} |->
        CASE p = "follow_my_account" -> MyAccount
          [] p = "follow_renew_my_materials" -> RenewMyMaterials
          [] p = "follow_review_my_account" -> ReviewMyAccount
          [] p = "follow_account_summary" -> AccountSummary]

\* C15: when the link a navigation step needs is not on the current page,
\* the step ends the call with a LinkNotFoundError: nothing is requested,
\* no later link is followed, no renewal form is submitted and no result
\* is returned.
C15_AbsentLinkEndsTheCall ==
    [][(/\ pc \in DOMAIN StepLink
        /\ StepLink[pc] \notin response.links
        /\ pc' # pc)
          => /\ pc' = "idle"
             /\ error' = "LinkNotFoundError"
             /\ result' = NoResult
             /\ hist'.trace = hist.trace
             /\ response' = response
             /\ renewed' = renewed]_vars

C15_Witness ==
    /\ pc = "idle"
    /\ op = "renew_all"
    /\ error = "LinkNotFoundError"
    /\ result = NoResult
    /\ MyAccount \in Events(hist)
    /\ RenewMyMaterials \notin Events(hist) \cup response.links
    /\ "submit renewitems" \notin Events(hist)

\* the loans the page of the current response lists, in catalogue order
Shown == SelectSeq(Catalogue, LAMBDA b : b \in response.boxes)

\* the renewal count the server holds for a loan
ServerCount(box) == IF box = Catalogue[1] /\ box \in renewed THEN 1 ELSE 0

\* C16: nothing is cached across calls: a finished items() or fines() has
\* followed its whole link chain in that call and returns what the page
\* fetched in that call holds, so items() shows the renewals made by the
\* calls before it.
C16_ResultsAreFetchedAfresh ==
    /\ (pc = "idle" /\ op = "items" /\ error = "none")
          => /\ hist.trace \in {g \o Chain(op) \o <<"parse">> :
                                   g \in {GuardPassed, GuardLogin}}
             /\ Len(result.items) = Len(Shown)
             /\ \A k \in 1..Len(Shown) :
                   /\ RENEW_PREFIX \o result.items[k].token = Shown[k]
                   /\ result.items[k].times_renewed = ServerCount(Shown[k])
    /\ (pc = "idle" /\ op = "fines" /\ error = "none")
          => /\ hist.trace \in {g \o Chain(op) \o <<"parse">> :
                                   g \in {GuardPassed, GuardLogin}}
             /\ response.summary.text \in SummaryTexts
             /\ result.fines = [neg |-> FALSE, coeff |-> 5, exp |-> 0]

C16_Witness ==
    /\ pc = "idle"
    /\ op = "items"
    /\ error = "none"
    /\ renewed = Boxes
    /\ hist.before = Boxes
    /\ Len(result.items) = 2
    /\ result.items[1].times_renewed = 1

\* C17: every Item that items() returns has a non-negative integer as
\* times_renewed, whatever renewal-count text the row holds, signed
\* numerals such as "-1" included.
C17_TimesRenewedIsNonNegative ==
    (output.kind = "items" /\ output.raised = "none")
        => \A k \in 1..Len(output.items) :
              output.items[k].times_renewed \in Nat

\* C18: every Item that items() returns has ill and renewable unset; a row
\* with a blank renewal count comes back with times_renewed 0 and with the
\* same flags as a row whose count is "0".
C18_FlagsAreNeverSet ==
    (output.kind = "items" /\ output.raised = "none")
        => /\ Len(output.items) = Len(ItemRows)
           /\ \A k \in 1..Len(output.items) :
                 /\ output.items[k].ill = None
                 /\ output.items[k].renewable = None
                 /\ ItemRows[k].strongs[2] = <<>>
                       => output.items[k].times_renewed = 0

C18_Witness ==
    /\ output.kind = "items"
    /\ output.raised = "none"
    /\ Len(input) = 2
    /\ input[1].cls = ItemListing
    /\ input[1].strongs = <<GoodDate, <<"0">> >>
    /\ input[2].cls = ItemListing \o <<"2">>
    /\ input[2].strongs = <<GoodDate, <<>> >>
    /\ Len(output.items) = 2
    /\ output.items[1] = output.items[2]
    /\ output.items[2].times_renewed = 0
    /\ output.items[2].ill = None

LoginSteps == <<"open", "select loginform", "submit loginform">>

\* C19: login() has no guard: whatever the session state, also when
\* logged_in already holds, it opens the home page, selects loginform and
\* submits the credentials, and only then looks for the greeting; the guard
\* of the navigation is the one place that skips the login.
C19_LoginIsUnconditional ==
    /\ (op = "login" /\ pc # "login")
          => /\ hist.trace # <<>>
             /\ \/ IsPrefix(hist.trace, LoginSteps \o <<"logged_in">>)
                \/ hist.trace = LoginSteps \o <<"not logged_in">>
             /\ (pc = "idle" /\ error \in {"none", "ValueError"})
                   => IsPrefix(LoginSteps, hist.trace)
    /\ (op \in NavOps /\ hist.entered /\ pc # "get_my_account")
          => /\ hist.trace # <<>>
             /\ hist.trace[1] = "logged_in"
             /\ Events(hist) \cap {"open", "submit loginform"} = {}

C19_Witness ==
    /\ op = "login"
    /\ hist.entered
    /\ pc = "idle"
    /\ error = "none"
    /\ hist.trace = LoginSteps \o <<"logged_in">>

====
